---- MODULE Spec2Model ----
(***************************************************************************)
(* Model of the hat asset core of hpp-editor-rs-v2: the Hat aggregate      *)
(* (src/src/hats.rs) with its add/remove/lookup operations, and the save   *)
(* and export write sequences.                                             *)
(*                                                                         *)
(* A hat element is a record [id, ty, hat_type]:                           *)
(*   id        the HatElementId handed out by hat_element_id();            *)
(*   ty        the Rust struct of the element (WearableHat, WingsHat,      *)
(*             ExtraHat, FlyingPetHat, WalkingPetHat), which decides       *)
(*             is_unique();                                                *)
(*   hat_type  the kind tag stored in data.base.hat_type, which decides    *)
(*             is_pet() and has_element().                                 *)
(* The two are separate fields in the source: the tag of an element built  *)
(* by load_from_path is the one its Data::default() writes, the tag of an  *)
(* element built by Hat::load is whatever data.json holds.                 *)
(*                                                                         *)
(* Five specifications share the variables, each leaving the others' at    *)
(* their idle values:                                                      *)
(*   Spec         the aggregate: new, load, add, remove, drop;             *)
(*   SpecSave     the write sequence of save and export_to_file;           *)
(*   SpecProject  a project folder: Hat::load, load_from_path, save with   *)
(*                gen_hat_data(Folder), export with gen_hat_data(File);    *)
(*                its elements also carry cfg, local_image_path, bitmap;   *)
(*   SpecAse      bitmap_from_ase (src/src/image.rs), loop by loop;        *)
(*   SpecTags     Image::aseprite_data on the tags of a file.              *)
(***************************************************************************)
EXTENDS Integers, FiniteSets, Sequences, TLC

VARIABLES
    phase,      \* "none": no hat; "loading": inside Hat::load's loop; "open": hat held by a tab
    elements,   \* Hat.elements: HatElementId -> element
    next_id,    \* HAT_ID_COUNTER
    last,       \* the last call made on the aggregate and its argument
    issued,     \* the ids hat_element_id() has returned in this run, in order
    textures,   \* the ids of the elements whose texture was created and never passed to Texture::delete
    \* --- save / export_to_file and the files they touch
    sv_op,       \* "none", "save" or "export": the call in progress or just ended
    sv_pc,       \* position inside the call
    disk,        \* the paths that exist among the hat's root and the files its elements name
    refs,        \* the (local_image_path, local_script_path) pairs of the hat's elements
    dest,        \* the destination file (data.json, or the archive): "absent", "old", "new"
    tmp,         \* the temporary sibling file of this call: "absent", "partial", "complete"
    stale,       \* temporary files left behind by earlier calls
    dest_before, \* dest when the call started
    del_failed,  \* the remove_file of the destination failed in this call
    result,      \* what the call returned
    \* --- the project folder and the hat opened from it
    pj_dirs,     \* which of the directories root and root/images exist
    pj_json,     \* root/data.json: absent, unparsable, or a HatData
    pj_name,     \* Hat.name
    pj_result,   \* what the last call on the project returned
    pj_saved,    \* the elements of the hat when save last returned Ok
    pj_archive,  \* the archive written by the call just made, if it was an export
    \* --- bitmap_from_ase on one aseprite file
    ase_n,       \* ase_file.num_frames()
    ase_size,    \* ase_file.width(), ase_file.height()
    ase_pc,      \* "idle", "loop" (inside the two loops), "done"
    ase_grid,    \* size_scale_x, size_scale_y
    ase_sheet,   \* width and height of the sheet bitmap
    ase_x,       \* x of the outer loop
    ase_y,       \* y of the inner loop
    ase_drawn,   \* the bitmap.draw calls made: frame index and position on the sheet
    \* --- aseprite_data on one aseprite file
    tg_tags,     \* the tags of the file
    tg_out,      \* what aseprite_data returned
    \* --- LoadHatElement::load on one image
    im,          \* image and data: the image and the data handed to load; elem: what load returned
    \* --- Path::local_path on one path and one directory
    lp,          \* path and dir: the path local_path is called on and its argument; out: what it returned
    \* --- a hat tab of the editor (Tab::HatElement)
    tab,         \* selected_hat_id and element_to_remove (the id only) of Tab::HatElement, {} for None;
                 \* lookup: what hat.element_mut(id).unwrap() of draw_hat_ui did in the last frame;
                 \* removed: removed_hat_id of the last frame's left panel
    \* --- the NameGetter of the editor
    ng           \* state: NameGetter.state; shown: the modal is open in egui's memory;
                 \* last: the last call made and, for update, the text typed and the result;
                 \* asked: the opens made while Closed, the results returned, what the last such open passed

hatvars == <<phase, elements, next_id, last, issued, textures>>

fsvars == <<sv_op, sv_pc, disk, refs, dest, tmp, stale, dest_before, del_failed, result>>

projvars == <<pj_dirs, pj_json, pj_name, pj_result, pj_saved, pj_archive>>

asevars == <<ase_n, ase_size, ase_pc, ase_grid, ase_sheet, ase_x, ase_y, ase_drawn>>

tagvars == <<tg_tags, tg_out>>

vars == <<hatvars, fsvars, projvars, asevars, tagvars, im, lp, tab, ng>>

\* What the operations on the aggregate leave alone, and what save and export
\* leave alone.
nothat == <<fsvars, projvars, asevars, tagvars, im, lp, tab, ng>>

notfs == <<hatvars, projvars, asevars, tagvars, im, lp, tab, ng>>

\* What the calls on an opened project leave alone.
notproject == <<fsvars, asevars, tagvars, im, lp, tab, ng>>

\* What bitmap_from_ase leaves alone, and what aseprite_data leaves alone.
notase == <<hatvars, fsvars, projvars, tagvars, im, lp, tab, ng>>

nottags == <<hatvars, fsvars, projvars, asevars, im, lp, tab, ng>>

\* What LoadHatElement::load leaves alone.
notimport == <<hatvars, fsvars, projvars, asevars, tagvars, lp, tab, ng>>

\* What Path::local_path leaves alone.
notpath == <<hatvars, fsvars, projvars, asevars, tagvars, im, tab, ng>>

\* What a frame of a hat tab leaves alone.
nottab == <<fsvars, projvars, asevars, tagvars, im, lp, ng>>

\* What the NameGetter leaves alone.
notng == <<hatvars, fsvars, projvars, asevars, tagvars, im, lp, tab>>

\* ------------------------------------------------------------------ bounds
\* Elements constructed in one run (the id counter stops here).
MaxId == 6

\* Temporary files of earlier calls still counted on disk.
MaxStale == 2

\* Elements of the hat that save and export are run on.
MaxSaveElems == 2

\* Elements constructed in one run on a project folder.
MaxProjId == 4

\* Elements of a hat opened from a project folder.
MaxProjElems == 2

\* Frames of an aseprite file drawn into a sheet.
MaxFrames == 12

\* Frames and tags of an aseprite file whose tags are read.
MaxTagFrames == 3

MaxTags == 2

\* Frames and tags of an aseprite file imported as an element.
MaxImportFrames == 3

MaxImportTags == 2

\* Components of a path handed to local_path.
MaxPathLen == 3

\* Elements constructed while a hat tab is drawn.
MaxTabId == 4

\* Opens of the NameGetter that take effect, and characters typed.
MaxOpens == 2

MaxNameLen == 2

\* --------------------------------------------------------------- constants
MAX_PETS == 5

MIN_FRAME_SIZE == 32

MAX_FRAME_SIZE == 64

HatType == {"Wearable", "Wings", "Extra", "FlyingPet", "WalkingPet", "Room"}

\* The five element structs that implement HatElement / LoadHatElement.
ElementStructs == {"Wearable", "Wings", "Extra", "FlyingPet", "WalkingPet"}

\* hat_type written by each <T>Data::default().
DefaultHatType(ty) ==
    CASE ty = "Wearable"   -> "Wearable"
      [] ty = "Wings"      -> "Wings"
      [] ty = "FlyingPet"  -> "FlyingPet"
      [] ty = "WalkingPet" -> "WalkingPet"
      [] ty = "Extra"      -> "WalkingPet"

\* Entries a data.json can hold: the enum variant picks the struct, base.hat_type
\* is deserialized as an independent field, so a file can pair any variant with
\* any tag.  The model reads files made of every variant with its own tag and of
\* a FlyingPet variant whose tag reads Wearable.
JsonEntries ==
    { [ty |-> t, hat_type |-> t] : t \in ElementStructs }
    \cup { [ty |-> "FlyingPet", hat_type |-> "Wearable"] }

NoElements == [i \in {} |-> 0]

Ids == 1..MaxId

\* ------------------------------------------------------- pure operations
\* Mutant: the unique flag set for every element type.
is_unique_Always(e) == e.ty \in ElementStructs

is_unique(e) == e.ty \in {"Wearable", "Wings"}

is_pet(e) == e.hat_type \in {"WalkingPet", "FlyingPet"}

pets_amount(els) == Cardinality({i \in DOMAIN els : is_pet(els[i])})

\* Mutant: the cap compared with <= (one pet too many).
can_add_pets_OffByOne(els) == pets_amount(els) <= MAX_PETS

can_add_pets(els) == pets_amount(els) < MAX_PETS

has_element(els, hat_type) == \E i \in DOMAIN els : els[i].hat_type = hat_type

can_add_elements(els) ==
    can_add_pets(els) /\ ~(\A hat_type \in HatType : has_element(els, hat_type))

\* Option<&dyn HatElement>: Some(e) is {e}, None is {}.
element(els, id) == IF id \in DOMAIN els THEN {els[id]} ELSE {}

element_exists(els, id) == id \in DOMAIN els

\* Mutant: the uniqueness test is missing.
add_element_NoUniqueCheck(els, e) ==
    IF is_pet(e) /\ ~can_add_pets(els) THEN els
    ELSE [i \in DOMAIN els \cup {e.id} |-> IF i = e.id THEN e ELSE els[i]]

add_element(els, e) ==
    IF is_pet(e) /\ ~can_add_pets(els) THEN els
    ELSE IF is_unique(e) /\ has_element(els, e.hat_type) THEN els
    ELSE [i \in DOMAIN els \cup {e.id} |-> IF i = e.id THEN e ELSE els[i]]

\* hat_by_type_def!: elements().find(|e| e.base().hat_type == tag), then
\* downcast_ref to the struct.  The map is iterated in no fixed order, so the
\* element found is any of those with the tag; the result is the set of what
\* the call can return, Some(e) as {e} and None as {}.
hat_by_type(els, ty, hat_type) ==
    IF ~has_element(els, hat_type) THEN {{}}
    ELSE { IF els[i].ty = ty THEN {els[i]} ELSE {} :
             i \in {j \in DOMAIN els : els[j].hat_type = hat_type} }

wereable(els) == hat_by_type(els, "Wearable", "Wearable")

wings(els) == hat_by_type(els, "Wings", "Wings")

extra(els) == hat_by_type(els, "Extra", "Extra")

flying_pet(els) == hat_by_type(els, "FlyingPet", "FlyingPet")

walking_pet(els) == hat_by_type(els, "WalkingPet", "WalkingPet")

\* Mutant: the map is cleared instead of losing one key.
remove_element_Clear(els, element_id) ==
    IF element_id \in DOMAIN els THEN [i \in {} |-> 0] ELSE els

remove_element(els, element_id) ==
    [i \in DOMAIN els \ {element_id} |-> els[i]]

\* Mutant: the counter is read and not advanced.
hat_element_id_NoBump(counter) == [id |-> counter, counter |-> counter]

\* hat_element_id(): returns the value of HAT_ID_COUNTER and sets the counter
\* to that value plus one.  The counter is a u32 starting at 1; MaxId keeps it
\* far below u32::MAX.
hat_element_id(counter) == [id |-> counter, counter |-> counter + 1]

\* LoadHatElement::load: the data keeps its tag, the id is fresh.
load(ty, hat_type, id) == [id |-> id, ty |-> ty, hat_type |-> hat_type]

load_from_path(ty, id) == load(ty, DefaultHatType(ty), id)

\* ---------------------------------------------------------------- actions
HatInit ==
    /\ phase = "none"
    /\ elements = NoElements
    /\ next_id = 1
    /\ last = [op |-> "none"]
    /\ issued = <<>>
    /\ textures = {}

\* No save or export is made: the files stay as they are.
FsIdle ==
    /\ sv_op = "none"
    /\ sv_pc = "idle"
    /\ disk = {}
    /\ refs = {}
    /\ dest = "absent"
    /\ tmp = "absent"
    /\ stale = 0
    /\ dest_before = "absent"
    /\ del_failed = FALSE
    /\ result = "none"

\* No project folder is opened.
NoResult == [kind |-> "none"]

PjIdle ==
    /\ pj_dirs = {}
    /\ pj_json = [state |-> "absent"]
    /\ pj_name = ""
    /\ pj_result = NoResult
    /\ pj_saved = [kind |-> "none"]
    /\ pj_archive = [kind |-> "none"]

\* No aseprite file is read.
AseIdle ==
    /\ ase_n = 0
    /\ ase_size = [width |-> 0, height |-> 0]
    /\ ase_pc = "idle"
    /\ ase_grid = [x |-> 0, y |-> 0]
    /\ ase_sheet = [width |-> 0, height |-> 0]
    /\ ase_x = 0
    /\ ase_y = 0
    /\ ase_drawn = <<>>

TagIdle ==
    /\ tg_tags = <<>>
    /\ tg_out = [kind |-> "none"]

\* No image is imported.
ImIdle ==
    im = [image |-> [kind |-> "none"], data |-> [ty |-> "none"], elem |-> [kind |-> "none"]]

\* local_path is not called.
LpIdle ==
    lp = [path |-> <<>>, dir |-> <<>>, out |-> [kind |-> "none"]]

\* No hat tab is drawn.
TabIdle ==
    tab = [selected_hat_id |-> {}, element_to_remove |-> {}, lookup |-> "none", removed |-> {}]

\* The NameGetter is never opened.
NgIdle ==
    ng = [state |-> [kind |-> "Closed"], shown |-> FALSE, last |-> [call |-> "none"],
          asked |-> [opens |-> 0, answers |-> 0, message |-> "", data |-> ""]]

Init == HatInit /\ FsIdle /\ PjIdle /\ AseIdle /\ TagIdle /\ ImIdle /\ LpIdle /\ TabIdle /\ NgIdle

\* Hat::new: an empty hat for a new tab.
HatNew ==
    /\ phase = "none"
    /\ phase' = "open"
    /\ elements' = NoElements
    /\ last' = [op |-> "new"]
    /\ UNCHANGED <<next_id, issued, textures>>
    /\ UNCHANGED nothat

\* Hat::load up to its loop: Hat::new(path, name).
LoadBegin ==
    /\ phase = "none"
    /\ phase' = "loading"
    /\ elements' = NoElements
    /\ last' = [op |-> "new"]
    /\ UNCHANGED <<next_id, issued, textures>>
    /\ UNCHANGED nothat

\* One iteration of Hat::load's loop: <T>Hat::load(data, ..) then add_element.
LoadElement(entry) ==
    /\ phase = "loading"
    /\ next_id <= MaxId
    /\ LET fresh == hat_element_id(next_id)
           e == load(entry.ty, entry.hat_type, fresh.id)
       IN  /\ elements' = add_element(elements, e)
           /\ last' = [op |-> "add", e |-> e]
           /\ next_id' = fresh.counter
           /\ issued' = Append(issued, fresh.id)
           /\ textures' = textures \cup {fresh.id}
    /\ UNCHANGED phase
    /\ UNCHANGED nothat

\* Hat::load returns Ok(hat).
LoadOk ==
    /\ phase = "loading"
    /\ phase' = "open"
    /\ UNCHANGED <<elements, next_id, last, issued, textures>>
    /\ UNCHANGED nothat

\* Hat::load returns early with an error (an image cannot be read, a texture
\* cannot be created): the partly built hat is dropped.
LoadErr ==
    /\ phase = "loading"
    /\ phase' = "none"
    /\ elements' = NoElements
    /\ last' = [op |-> "none"]
    /\ UNCHANGED <<next_id, issued, textures>>
    /\ UNCHANGED nothat

\* <T>Hat::load_from_path(path, gl) followed by hat.add_element(..).
AddFromPath(ty) ==
    /\ phase = "open"
    /\ next_id <= MaxId
    /\ LET fresh == hat_element_id(next_id)
           e == load_from_path(ty, fresh.id)
       IN  /\ elements' = add_element(elements, e)
           /\ last' = [op |-> "add", e |-> e]
           /\ next_id' = fresh.counter
           /\ issued' = Append(issued, fresh.id)
           /\ textures' = textures \cup {fresh.id}
    /\ UNCHANGED phase
    /\ UNCHANGED nothat

\* hat.remove_element(id)
RemoveElement(id) ==
    /\ phase = "open"
    /\ elements' = remove_element(elements, id)
    /\ last' = [op |-> "remove", id |-> id]
    /\ UNCHANGED <<phase, next_id, issued, textures>>
    /\ UNCHANGED nothat

\* The tab is closed: the hat is dropped.
HatDrop ==
    /\ phase = "open"
    /\ phase' = "none"
    /\ elements' = NoElements
    /\ last' = [op |-> "none"]
    /\ UNCHANGED <<next_id, issued, textures>>
    /\ UNCHANGED nothat

Next ==
    \/ HatNew
    \/ LoadBegin
    \/ \E entry \in JsonEntries : LoadElement(entry)
    \/ LoadOk
    \/ LoadErr
    \/ \E ty \in ElementStructs : AddFromPath(ty)
    \/ \E id \in Ids : RemoveElement(id)
    \/ HatDrop

Spec == Init /\ [][Next]_vars

\* ------------------------------------------------ save and export_to_file
\* Hat.path, and the files the elements of the hat can name relative to it.
RootDir == "root"

RefPaths == {"images/a.png", "images/b.png", "src/a.lua"}

\* base().local_image_path and base().local_script_path of one element:
\* Some(p) is {p}, None is {}.
ElemRefs ==
    { [image |-> i, script |-> sc] :
        i \in {{}, {"images/a.png"}, {"images/b.png"}}, sc \in {{}, {"src/a.lua"}} }

\* Mutant: the script of an element is not looked at.
missing_path_ImageOnly(dk, e) ==
    IF e.image # {} /\ ~(e.image \subseteq dk) THEN e.image ELSE {}

\* The path check_files_integrity reports for one element, {} when both of its
\* files are there: the image is looked at first, then the script.
missing_path(dk, e) ==
    IF e.image # {} /\ ~(e.image \subseteq dk) THEN e.image
    ELSE IF e.script # {} /\ ~(e.script \subseteq dk) THEN e.script
    ELSE {}

\* Mutant: only the root directory is looked at.
check_files_integrity_RootOnly(dk, els) ==
    IF RootDir \notin dk THEN {RootDir} ELSE {"Ok"}

\* check_files_integrity: the results the call can give, "Ok" or the path named
\* in the error.  The elements are visited in the map's order, which is not
\* fixed, so any element with a missing file can be the one reported.
check_files_integrity(dk, els) ==
    IF RootDir \notin dk THEN {RootDir}
    ELSE LET bad == UNION {missing_path(dk, e) : e \in els}
         IN  IF bad = {} THEN {"Ok"} ELSE bad

Ok == [kind |-> "Ok"]

Err(what) == [kind |-> "Err", what |-> what]

Ops == {"save", "export"}

\* The hat was loaded from root: its files are there, the destinations may
\* hold a file of an earlier run.
FsInit ==
    /\ sv_op = "none"
    /\ sv_pc = "idle"
    /\ disk = {RootDir} \cup RefPaths
    /\ refs \in {r \in SUBSET ElemRefs : Cardinality(r) <= MaxSaveElems}
    /\ dest \in [Ops -> {"absent", "old"}]
    /\ tmp = "absent"
    /\ stale = 0
    /\ dest_before = "absent"
    /\ del_failed = FALSE
    /\ result = "none"

InitSave == HatInit /\ FsInit /\ PjIdle /\ AseIdle /\ TagIdle /\ ImIdle /\ LpIdle /\ TabIdle /\ NgIdle

\* Something outside the editor deletes a file of the project, or the whole
\* root directory with data.json in it.
ExternalDelete(p) ==
    /\ sv_pc = "idle"
    /\ p \in disk
    /\ disk' = IF p = RootDir THEN {} ELSE disk \ {p}
    /\ dest' = IF p = RootDir THEN [dest EXCEPT !["save"] = "absent"] ELSE dest
    /\ UNCHANGED <<sv_op, sv_pc, refs, tmp, stale, dest_before, del_failed, result>>
    /\ UNCHANGED notfs

\* save(path) / export_to_file(path) is called: check_files_integrity() runs
\* first and the call bails out when it fails.
Call(op) ==
    /\ sv_pc = "idle"
    /\ stale < MaxStale
    /\ sv_op' = op
    /\ dest_before' = dest[op]
    /\ del_failed' = FALSE
    /\ \E r \in check_files_integrity(disk, refs) :
        IF r = "Ok"
        THEN sv_pc' = "checked" /\ result' = "none"
        ELSE sv_pc' = "returned" /\ result' = [kind |-> "Err", what |-> "integrity", path |-> r]
    /\ UNCHANGED <<disk, refs, dest, tmp, stale>>
    /\ UNCHANGED notfs

\* File::create(&uuid_path)
CreateTmp ==
    /\ sv_pc = "checked"
    /\ \/ tmp' = "partial" /\ sv_pc' = "created" /\ UNCHANGED result
       \/ result' = Err("create") /\ sv_pc' = "returned" /\ UNCHANGED tmp
    /\ UNCHANGED <<sv_op, disk, refs, dest, stale, dest_before, del_failed>>
    /\ UNCHANGED notfs

\* The content is generated and written into the temporary file: data.json for
\* save, the zip entries up to finish() for export.  A failure returns at once
\* and the file stays as far as it was written.
WriteTmp ==
    /\ sv_pc = "created"
    /\ \/ tmp' = "complete" /\ sv_pc' = "written" /\ UNCHANGED result
       \/ result' = Err("write") /\ sv_pc' = "returned" /\ UNCHANGED tmp
    /\ UNCHANGED <<sv_op, disk, refs, dest, stale, dest_before, del_failed>>
    /\ UNCHANGED notfs

\* std::fs::exists(&path).unwrap_or(false) is false: there is no destination,
\* or exists() itself failed.  Nothing is deleted.
SkipDelete ==
    /\ sv_pc = "written"
    /\ sv_pc' = "ready"
    /\ UNCHANGED <<sv_op, disk, refs, dest, tmp, stale, dest_before, del_failed, result>>
    /\ UNCHANGED notfs

\* The destination exists and remove_file(&path) succeeds.
DeleteOk ==
    /\ sv_pc = "written"
    /\ dest[sv_op] # "absent"
    /\ dest' = [dest EXCEPT ![sv_op] = "absent"]
    /\ sv_pc' = "ready"
    /\ UNCHANGED <<sv_op, disk, refs, tmp, stale, dest_before, del_failed, result>>
    /\ UNCHANGED notfs

\* Mutant: the temporary file is not removed when the deletion fails.
DeleteFails_NoCleanup ==
    /\ sv_pc = "written"
    /\ dest[sv_op] # "absent"
    /\ del_failed' = TRUE
    /\ result' = Err("delete")
    /\ sv_pc' = "returned"
    /\ UNCHANGED <<sv_op, disk, refs, dest, tmp, stale, dest_before>>
    /\ UNCHANGED notfs

\* The destination exists and remove_file(&path) fails: the temporary file is
\* removed and the deletion error returned; when that removal fails too, its
\* error is returned by the `?` and the temporary file stays.
DeleteFails ==
    /\ sv_pc = "written"
    /\ dest[sv_op] # "absent"
    /\ del_failed' = TRUE
    /\ \/ tmp' = "absent" /\ result' = Err("delete")
       \/ tmp' = tmp /\ result' = Err("remove_tmp")
    /\ sv_pc' = "returned"
    /\ UNCHANGED <<sv_op, disk, refs, dest, stale, dest_before>>
    /\ UNCHANGED notfs

\* std::fs::rename(&uuid_path, path)
Rename ==
    /\ sv_pc = "ready"
    /\ \/ /\ dest' = [dest EXCEPT ![sv_op] = "new"]
          /\ tmp' = "absent"
          /\ result' = Ok
       \/ /\ result' = Err("rename")
          /\ UNCHANGED <<dest, tmp>>
    /\ sv_pc' = "returned"
    /\ UNCHANGED <<sv_op, disk, refs, stale, dest_before, del_failed>>
    /\ UNCHANGED notfs

\* The process dies between two steps of the call.
Crash ==
    /\ sv_pc \in {"checked", "created", "written", "ready"}
    /\ sv_pc' = "crashed"
    /\ UNCHANGED <<sv_op, disk, refs, dest, tmp, stale, dest_before, del_failed, result>>
    /\ UNCHANGED notfs

\* The caller takes the result (or the editor is started again after a crash):
\* what the call left on disk is now what the next call finds there.
Handled ==
    /\ sv_pc \in {"returned", "crashed"}
    /\ sv_pc' = "idle"
    /\ result' = "none"
    /\ del_failed' = FALSE
    /\ dest' = [dest EXCEPT ![sv_op] = IF @ = "new" THEN "old" ELSE @]
    /\ tmp' = "absent"
    /\ stale' = IF tmp # "absent" THEN stale + 1 ELSE stale
    /\ UNCHANGED <<sv_op, disk, refs, dest_before>>
    /\ UNCHANGED notfs

NextSave ==
    \/ \E p \in {RootDir} \cup RefPaths : ExternalDelete(p)
    \/ \E op \in Ops : Call(op)
    \/ CreateTmp
    \/ WriteTmp
    \/ SkipDelete
    \/ DeleteOk
    \/ DeleteFails
    \/ Rename
    \/ Crash
    \/ Handled

SpecSave == InitSave /\ [][NextSave]_vars

\* ------------------------------------ the project folder: load, save, export
\* Paths are sequences of components.  The hat's root, the images an element
\* can be built from with load_from_path, and a file that is no image.
RootPath == <<"root">>

PngInRoot == <<"root", "images", "a.png">>

PngOutside == <<"pictures", "c.png">>

AseInRoot == <<"root", "images", "d.aseprite">>

NoImage == <<"root", "notes.txt">>

ImportPaths == {PngInRoot, PngOutside, AseInRoot, NoImage}

\* The element types the editor builds with load_from_path.
ImportStructs == {"Wearable", "Wings"}

\* Path::extension of the paths above.
extension(path) ==
    CASE path[Len(path)] \in {"a.png", "b.png", "c.png"} -> "png"
      [] path[Len(path)] = "d.aseprite" -> "aseprite"
      [] OTHER -> "txt"

\* Image::new: a png is read into a Bitmap that remembers its path, an
\* aseprite file is kept with its path, anything else is an error.
Image_new(path) ==
    CASE extension(path) = "png" -> [kind |-> "Bitmap", path |-> {path}]
      [] extension(path) = "aseprite" -> [kind |-> "Aseprite", path |-> {path}]
      [] OTHER -> [kind |-> "Err"]

\* Path::has_root: the first component is the root directory.
has_root(path) == path # <<>> /\ path[1] = "/"

\* Path::ancestors: the path itself, then each parent; the last one is the
\* root of a path that has one and the empty path of a relative path.
ancestors(path) ==
    {SubSeq(path, 1, k) : k \in (IF has_root(path) THEN 1 ELSE 0)..Len(path)}

\* Length of components().rev().zip(ancestors().skip(1)).
zip_len(path) == Cardinality(ancestors(path)) - 1

\* Path::local_path(directory): the components pushed by the loop, from the
\* last one back to the first whose parent is the directory.
RECURSIVE local_path_parts(_, _, _)
local_path_parts(path, directory, n) ==
    IF n >= zip_len(path) THEN n
    ELSE IF SubSeq(path, 1, Len(path) - n) = directory THEN n
    ELSE local_path_parts(path, directory, n + 1)

local_path(path, directory) ==
    LET is_in_dir ==
            \/ directory = <<>>
            \/ directory \in ancestors(path)
        n == IF zip_len(path) = 0 THEN 0 ELSE local_path_parts(path, directory, 1)
    IN  IF ~is_in_dir THEN [kind |-> "Err", what |-> "PathNotInDir"]
        ELSE [kind |-> "Ok", path |-> SubSeq(path, Len(path) - n + 1, Len(path))]

\* <T>Data::default(): cfg stands for the per-kind fields, the frame size and
\* the animations of the data.
Data_default(ty) ==
    [ty |-> ty, hat_type |-> DefaultHatType(ty), cfg |-> "default", local_image_path |-> {}]

\* HatData::new(name)
HatData_new(name) == [state |-> "data", name |-> name, elements |-> <<>>]

\* The data.json files a project can hold before the editor opens it.
WearableEntry ==
    [ty |-> "Wearable", hat_type |-> "Wearable", cfg |-> "edited",
     local_image_path |-> {<<"images", "a.png">>}]

PetEntry ==
    [ty |-> "FlyingPet", hat_type |-> "FlyingPet", cfg |-> "edited",
     local_image_path |-> {<<"images", "b.png">>}]

ProjectFiles ==
    { [state |-> "data", name |-> "Hat", elements |-> <<WearableEntry>>],
      [state |-> "data", name |-> "Hat", elements |-> <<PetEntry, WearableEntry>>] }

\* LoadHatElement::load(data, image, gl): to_bitmap_with_data gives the bitmap
\* (the one read from the png, or a sheet drawn by bitmap_from_ase, which has
\* no path) and, for an aseprite file, the frame size and animations that
\* replace the ones of the data.
load_with_image(data, image, id) ==
    [id |-> id, ty |-> data.ty, hat_type |-> data.hat_type,
     cfg |-> IF image.kind = "Aseprite" THEN "ase" ELSE data.cfg,
     local_image_path |-> data.local_image_path,
     bitmap |-> [of |-> id, path |-> IF image.kind = "Bitmap" THEN image.path ELSE {}]]

\* The loop of Hat::load over data.elements; st is [elements, counter, issued].
RECURSIVE load_elements(_, _)
load_elements(st, data_elements) ==
    IF data_elements = <<>> THEN st
    ELSE LET d == Head(data_elements)
             local_image_path == CHOOSE p \in d.local_image_path : TRUE
             image_path == RootPath \o local_image_path
             fresh == hat_element_id(st.counter)
             e == load_with_image(d, [kind |-> "Bitmap", path |-> {image_path}], fresh.id)
         IN  load_elements([elements |-> add_element(st.elements, e),
                            counter |-> fresh.counter,
                            issued |-> Append(st.issued, fresh.id)],
                           Tail(data_elements))

\* Mutant: only the root is looked for.
load_dirs_missing_RootOnly(dirs) == "root" \notin dirs

\* Hat::load's first test: root or root/images does not exist.
load_dirs_missing(dirs) == \E d \in {"root", "images"} : d \notin dirs

\* to_hat_element_data() with base.local_image_path set.
to_hat_element_data(e, local_image_path) ==
    [ty |-> e.ty, hat_type |-> e.hat_type, cfg |-> e.cfg,
     local_image_path |-> {local_image_path}]

\* The local image path gen_hat_data computes for one element, or the panic
\* it ends in: unwrap() of a bitmap without path, todo!() for PathNotInDir.
gen_local_image_path(e, save_type) ==
    IF save_type = "File"
    THEN [kind |-> "Ok", path |-> <<"images", ToString(e.id) \o ".png">>]
    ELSE IF e.bitmap.path = {} THEN [kind |-> "Panic", what |-> "unwrap"]
    ELSE LET r == local_path(CHOOSE p \in e.bitmap.path : TRUE, RootPath)
         IN  IF r.kind = "Ok" THEN r ELSE [kind |-> "Panic", what |-> "todo"]

\* gen_hat_data(save_type), the elements visited in the order ord.
gen_hat_data(name, els, ord, save_type) ==
    LET paths == [i \in DOMAIN ord |-> gen_local_image_path(els[ord[i]], save_type)]
        panics == {i \in DOMAIN ord : paths[i].kind = "Panic"}
    IN  IF panics # {}
        THEN paths[CHOOSE i \in panics : \A j \in panics : i <= j]
        ELSE [kind |-> "Ok",
              data |-> [state |-> "data", name |-> name,
                        elements |-> [i \in DOMAIN ord |->
                                        to_hat_element_data(els[ord[i]], paths[i].path)]]]

\* Mutant: the images are written against the data entries in reverse.
zip_images_Reversed(data_elements, hat_elements) ==
    [i \in DOMAIN data_elements |->
        [name |-> CHOOSE p \in data_elements[i].local_image_path : TRUE,
         bitmap |-> hat_elements[Len(hat_elements) + 1 - i].bitmap.of]]

\* The loop of export_to_file over hat_data.elements zipped with
\* self.elements(): one archive entry per pair, named by the data entry and
\* holding the png bytes of the element's bitmap.
zip_images(data_elements, hat_elements) ==
    [i \in DOMAIN data_elements |->
        [name |-> CHOOSE p \in data_elements[i].local_image_path : TRUE,
         bitmap |-> hat_elements[i].bitmap.of]]

\* The orders in which a HashMap with these keys can be iterated.
Orders(keys) ==
    {ord \in [1..Cardinality(keys) -> keys] : \A i, j \in DOMAIN ord : ord[i] = ord[j] => i = j}

\* The folder the editor is pointed at: nothing, a bare root, or a root with
\* its images directory and maybe a data.json.
PjInit ==
    /\ pj_dirs \in {{}, {"root"}, {"root", "images"}}
    /\ pj_json \in {[state |-> "absent"]} \cup (IF "images" \in pj_dirs THEN ProjectFiles ELSE {})
    /\ pj_name = ""
    /\ pj_result = NoResult
    /\ pj_saved = [kind |-> "none"]
    /\ pj_archive = [kind |-> "none"]

InitProject == HatInit /\ FsIdle /\ PjInit /\ AseIdle /\ TagIdle /\ ImIdle /\ LpIdle /\ TabIdle /\ NgIdle

\* Hat::load after data.json was read or written: Hat::new(path, name), then
\* the loop; an image that cannot be read or a texture that cannot be made
\* returns the error from inside the loop and the hat is dropped.
LoadData(data) ==
    /\ next_id + Len(data.elements) <= MaxProjId + 1
    /\ LET st0 == [elements |-> NoElements, counter |-> next_id, issued |-> issued] IN
        \/ LET st == load_elements(st0, data.elements) IN
            /\ phase' = "open"
            /\ elements' = st.elements
            /\ next_id' = st.counter
            /\ issued' = st.issued
            /\ textures' = textures \cup {st.issued[i] : i \in DOMAIN st.issued}
            /\ pj_name' = data.name
            /\ pj_result' = Ok
        \/ \E k \in DOMAIN data.elements :
            LET st == load_elements(st0, SubSeq(data.elements, 1, k - 1)) IN
            /\ phase' = "none"
            /\ elements' = NoElements
            /\ next_id' = st.counter
            /\ issued' = st.issued
            /\ textures' = textures \cup {st.issued[i] : i \in DOMAIN st.issued}
            /\ pj_name' = ""
            /\ pj_result' = Err("image")

\* Hat::load(root, gl)
PjLoad ==
    /\ phase = "none"
    /\ \/ /\ load_dirs_missing(pj_dirs)
          /\ pj_result' = Err("expected")
          /\ last' = [op |-> "load", wrote |-> FALSE]
          /\ UNCHANGED <<pj_json, pj_name, phase, elements, next_id, issued, textures>>
       \/ /\ ~load_dirs_missing(pj_dirs)
          /\ pj_json.state = "absent"
          /\ \/ /\ pj_result' = Err("create")
                /\ last' = [op |-> "load", wrote |-> FALSE]
                /\ UNCHANGED <<pj_json, pj_name, phase, elements, next_id, issued, textures>>
             \/ /\ pj_result' = Err("write")
                /\ pj_json' = [state |-> "garbage"]
                /\ last' = [op |-> "load", wrote |-> TRUE]
                /\ UNCHANGED <<pj_name, phase, elements, next_id, issued, textures>>
             \/ /\ pj_json' = HatData_new("Default")
                /\ last' = [op |-> "load", wrote |-> TRUE]
                /\ LoadData(HatData_new("Default"))
       \/ /\ ~load_dirs_missing(pj_dirs)
          /\ pj_json.state = "garbage"
          /\ pj_result' = Err("parse")
          /\ last' = [op |-> "load", wrote |-> FALSE]
          /\ UNCHANGED <<pj_json, pj_name, phase, elements, next_id, issued, textures>>
       \/ /\ ~load_dirs_missing(pj_dirs)
          /\ pj_json.state = "data"
          /\ last' = [op |-> "load", wrote |-> FALSE]
          /\ LoadData(pj_json)
          /\ UNCHANGED pj_json
    /\ pj_archive' = [kind |-> "none"]
    /\ UNCHANGED <<pj_dirs, pj_saved>>
    /\ UNCHANGED notproject

\* <T>Hat::load_from_path(path, gl) and hat.add_element(..): the image is
\* read first, then the texture is made, then the id is taken.
PjAdd(ty, path) ==
    /\ phase = "open"
    /\ next_id <= MaxProjId
    /\ Cardinality(DOMAIN elements) < MaxProjElems
    /\ LET image == Image_new(path) IN
        \/ /\ image.kind = "Err"
           /\ pj_result' = Err("extension")
           /\ last' = [op |-> "add_failed"]
           /\ UNCHANGED <<elements, next_id, issued, textures>>
        \/ /\ image.kind # "Err"
           /\ pj_result' = Err("texture")
           /\ last' = [op |-> "add_failed"]
           /\ UNCHANGED <<elements, next_id, issued, textures>>
        \/ /\ image.kind # "Err"
           /\ LET fresh == hat_element_id(next_id)
                  e == load_with_image(Data_default(ty), image, fresh.id)
              IN  /\ elements' = add_element(elements, e)
                  /\ last' = [op |-> "add", e |-> e]
                  /\ next_id' = fresh.counter
                  /\ issued' = Append(issued, fresh.id)
                  /\ textures' = textures \cup {fresh.id}
           /\ pj_result' = Ok
    /\ pj_archive' = [kind |-> "none"]
    /\ UNCHANGED <<phase, pj_dirs, pj_json, pj_name, pj_saved>>
    /\ UNCHANGED notproject

\* hat.save(hat.path()) with every filesystem call succeeding: the integrity
\* check passes (no file of the project is deleted here), the temporary file
\* is created, gen_hat_data(Folder) runs, and its JSON replaces data.json.  A
\* panic inside gen_hat_data ends the process.
PjSave ==
    /\ phase = "open"
    /\ \E ord \in Orders(DOMAIN elements) :
        LET g == gen_hat_data(pj_name, elements, ord, "Folder") IN
        IF g.kind = "Panic"
        THEN /\ pj_result' = g
             /\ phase' = "aborted"
             /\ UNCHANGED <<pj_json, pj_saved>>
        ELSE /\ pj_result' = Ok
             /\ pj_json' = g.data
             /\ pj_saved' = [kind |-> "saved", elements |-> elements]
             /\ UNCHANGED phase
    /\ last' = [op |-> "save"]
    /\ pj_archive' = [kind |-> "none"]
    /\ UNCHANGED <<elements, next_id, issued, textures, pj_dirs, pj_name>>
    /\ UNCHANGED notproject

\* hat.export_to_file(path) with every filesystem call succeeding.  The two
\* passes over self.elements(), in gen_hat_data and in the zip loop, read the
\* same unmodified map and so visit it in the same order.
PjExport ==
    /\ phase = "open"
    /\ \E ord \in Orders(DOMAIN elements) :
        LET g == gen_hat_data(pj_name, elements, ord, "File")
            hat_elements == [i \in DOMAIN ord |-> elements[ord[i]]]
        IN  pj_archive' = [kind |-> "zip",
                           images |-> zip_images(g.data.elements, hat_elements),
                           data |-> g.data]
    /\ pj_result' = Ok
    /\ last' = [op |-> "export"]
    /\ UNCHANGED <<phase, elements, next_id, issued, textures, pj_dirs, pj_json, pj_name, pj_saved>>
    /\ UNCHANGED notproject

\* The tab is closed.
PjClose ==
    /\ phase = "open"
    /\ phase' = "none"
    /\ elements' = NoElements
    /\ pj_name' = ""
    /\ pj_result' = NoResult
    /\ last' = [op |-> "none"]
    /\ pj_archive' = [kind |-> "none"]
    /\ UNCHANGED <<next_id, issued, textures, pj_dirs, pj_json, pj_saved>>
    /\ UNCHANGED notproject

NextProject ==
    \/ PjLoad
    \/ \E ty \in ImportStructs, path \in ImportPaths : PjAdd(ty, path)
    \/ PjSave
    \/ PjExport
    \/ PjClose

SpecProject == InitProject /\ [][NextProject]_vars

\* ------------------------------------------------- image.rs: bitmap_from_ase
\* Width and height of one sub-frame of the aseprite files drawn.
FrameSizes == {[width |-> 32, height |-> 32], [width |-> 48, height |-> 40]}

\* (frames.len() as f64).sqrt().ceil() as i32
ceil_sqrt(n) == CHOOSE w \in 0..n : w * w >= n /\ \A v \in 0..n : v * v >= n => w <= v

\* Mutant: the last row is dropped only when more than a row is empty.
size_scale_y_Strict(frames_len, size_scale_x) ==
    LET max_frames == size_scale_x * size_scale_x
        empty_frames == max_frames - frames_len
    IN  IF empty_frames > size_scale_x THEN size_scale_x - 1 ELSE size_scale_x

size_scale_y(frames_len, size_scale_x) ==
    LET max_frames == size_scale_x * size_scale_x
        current_frames == frames_len
        row_of_frames == size_scale_x
        empty_frames == max_frames - current_frames
    IN  IF empty_frames >= row_of_frames THEN size_scale_x - 1 ELSE size_scale_x

\* Mutant: the cell index taken column by column.
frame_index_Transposed(x, y, size_scale_x) == x * size_scale_x + y

\* The index of the frame looked up for the cell (x, y).
frame_index(x, y, size_scale_x) == y * size_scale_x + x

\* An aseprite file with ase_n frames is about to be drawn.
AseInit ==
    /\ ase_n \in 1..MaxFrames
    /\ ase_size \in FrameSizes
    /\ ase_pc = "idle"
    /\ ase_grid = [x |-> 0, y |-> 0]
    /\ ase_sheet = [width |-> 0, height |-> 0]
    /\ ase_x = 0
    /\ ase_y = 0
    /\ ase_drawn = <<>>

InitAse == HatInit /\ FsIdle /\ PjIdle /\ AseInit /\ TagIdle /\ ImIdle /\ LpIdle /\ TabIdle /\ NgIdle

\* bitmap_from_ase up to its loops: the grid and the empty sheet.
AseBegin ==
    /\ ase_pc = "idle"
    /\ LET size_scale_x == ceil_sqrt(ase_n)
           scale_y == size_scale_y(ase_n, size_scale_x)
       IN  /\ ase_grid' = [x |-> size_scale_x, y |-> scale_y]
           /\ ase_sheet' = [width |-> ase_size.width * size_scale_x,
                            height |-> ase_size.height * scale_y]
    /\ ase_pc' = "loop"
    /\ ase_x' = 0
    /\ ase_y' = 0
    /\ ase_drawn' = <<>>
    /\ UNCHANGED <<ase_n, ase_size>>
    /\ UNCHANGED notase

\* One pass of the inner loop whose cell has a frame: the frame is drawn.
AseDraw ==
    /\ ase_pc = "loop"
    /\ ase_x < ase_grid.x
    /\ ase_y < ase_grid.y
    /\ frame_index(ase_x, ase_y, ase_grid.x) < ase_n
    /\ ase_drawn' = Append(ase_drawn,
                           [frame |-> frame_index(ase_x, ase_y, ase_grid.x),
                            x |-> ase_x * ase_size.width,
                            y |-> ase_y * ase_size.height])
    /\ ase_y' = ase_y + 1
    /\ UNCHANGED <<ase_n, ase_size, ase_pc, ase_grid, ase_sheet, ase_x>>
    /\ UNCHANGED notase

\* One pass of the inner loop whose cell has no frame: break, the outer loop
\* goes to the next x.
AseBreak ==
    /\ ase_pc = "loop"
    /\ ase_x < ase_grid.x
    /\ ase_y < ase_grid.y
    /\ frame_index(ase_x, ase_y, ase_grid.x) >= ase_n
    /\ ase_x' = ase_x + 1
    /\ ase_y' = 0
    /\ UNCHANGED <<ase_n, ase_size, ase_pc, ase_grid, ase_sheet, ase_drawn>>
    /\ UNCHANGED notase

\* The inner loop is through: the outer loop goes to the next x.
AseNextX ==
    /\ ase_pc = "loop"
    /\ ase_x < ase_grid.x
    /\ ase_y >= ase_grid.y
    /\ ase_x' = ase_x + 1
    /\ ase_y' = 0
    /\ UNCHANGED <<ase_n, ase_size, ase_pc, ase_grid, ase_sheet, ase_drawn>>
    /\ UNCHANGED notase

\* The outer loop is through: the sheet is returned.
AseReturn ==
    /\ ase_pc = "loop"
    /\ ase_x >= ase_grid.x
    /\ ase_pc' = "done"
    /\ UNCHANGED <<ase_n, ase_size, ase_grid, ase_sheet, ase_x, ase_y, ase_drawn>>
    /\ UNCHANGED notase

NextAse ==
    \/ AseBegin
    \/ AseDraw
    \/ AseBreak
    \/ AseNextX
    \/ AseReturn

SpecAse == InitAse /\ [][NextAse]_vars

\* ----------------------------------------------- image.rs: aseprite_data
\* The tag names of the files read: three that are in the name table when
\* case is ignored, one that is not.
TagNames == {"OnDefault", "ONPETSTOP", "onduckjump", "Walk"}

\* str::to_lowercase on these names.
to_lowercase(name) ==
    CASE name = "OnDefault" -> "ondefault"
      [] name = "ONPETSTOP" -> "onpetstop"
      [] OTHER -> name

\* The match of aseprite_data on the lowercased name: Some(AnimType) is
\* {anim_type}, the default arm is {}.
anim_type_of(lower) ==
    CASE lower = "ondefault" -> {"OnDefault"}
      [] lower = "onpressquack" -> {"OnPressQuack"}
      [] lower = "onreleasequack" -> {"OnReleaseQuack"}
      [] lower = "onpetstop" -> {"OnPetStop"}
      [] lower = "onpetapproach" -> {"OnPetApproach"}
      [] lower = "onduckdeath" -> {"OnDuckDeath"}
      [] lower = "onduckjump" -> {"OnDuckJump"}
      [] lower = "onduckland" -> {"OnDuckLand"}
      [] lower = "onduckglide" -> {"OnDuckGlide"}
      [] lower = "onduckwalk" -> {"OnDuckWalk"}
      [] lower = "onducksneak" -> {"OnDuckSneak"}
      [] lower = "onducknetted" -> {"OnDuckNetted"}
      [] lower = "onduckspawned" -> {"OnDuckSpawned"}
      [] lower = "onhatpickedup" -> {"OnHatPickedUp"}
      [] OTHER -> {}

\* frame(f).duration() of the files read, in milliseconds.
duration(f) == 100 * (f + 1)

\* duration as f32 / 1000.0: the value ms / 1000, kept as the pair.
seconds(ms) == [ms |-> ms, per |-> 1000]

\* The aseprite files read: MaxTagFrames frames and up to MaxTags tags, each
\* with a name and the first and last frame it covers, as Tag::from_frame()
\* and Tag::to_frame() give them (both frames belong to the tag).
AseTags ==
    { [name |-> nm, from_frame |-> a, to_frame |-> b] :
        nm \in TagNames, a \in 0..(MaxTagFrames - 1), b \in 0..(MaxTagFrames - 1) }

AseFiles ==
    UNION { [1..k -> {t \in AseTags : t.from_frame <= t.to_frame}] : k \in 0..MaxTags }

\* Frame::with_delay(value, delay): delay is Some(delay); the frame's id is
\* left out.
Frame_with_delay(value, delay) == [value |-> value, delay |-> {delay}]

\* Animation::new(anim_type, delay, looping, frames)
Animation_new(anim_type, delay, looping, frames) ==
    [anim_type |-> anim_type, delay |-> delay, looping |-> looping, frames |-> frames]

\* (t.from_frame()..t.to_frame()).map(..).collect()
tag_frames(t) ==
    [k \in 1..(t.to_frame - t.from_frame) |->
        Frame_with_delay(t.from_frame + k - 1, seconds(duration(t.from_frame + k - 1)))]

\* The filter_map and map of aseprite_data over the tags.
RECURSIVE aseprite_animations(_)
aseprite_animations(tags) ==
    IF tags = <<>> THEN <<>>
    ELSE LET t == Head(tags)
             anim_type == anim_type_of(to_lowercase(t.name))
         IN  (IF anim_type = {} THEN <<>>
              ELSE <<Animation_new(CHOOSE a \in anim_type : TRUE, -1, FALSE, tag_frames(t))>>)
             \o aseprite_animations(Tail(tags))

InitTags ==
    /\ HatInit /\ FsIdle /\ PjIdle /\ AseIdle /\ ImIdle /\ LpIdle /\ TabIdle /\ NgIdle
    /\ tg_tags \in AseFiles
    /\ tg_out = [kind |-> "none"]

\* image.aseprite_data() on an Image::Aseprite
AsepriteData ==
    /\ tg_out.kind = "none"
    /\ tg_out' = [kind |-> "Some", animations |-> aseprite_animations(tg_tags)]
    /\ UNCHANGED tg_tags
    /\ UNCHANGED nottags

NextTags == AsepriteData

SpecTags == InitTags /\ [][NextTags]_vars

\* ------------------------------------- LoadHatElement::load on an image
\* PET_ANIMATIONS and NON_PET_ANIMATIONS
PET_ANIMATIONS ==
    {"OnDefault", "OnPressQuack", "OnReleaseQuack", "OnPetStop", "OnPetApproach",
     "OnDuckDeath", "OnDuckJump", "OnDuckLand", "OnDuckGlide", "OnDuckWalk",
     "OnDuckSneak", "OnDuckNetted", "OnDuckSpawned", "OnHatPickedUp"}

NON_PET_ANIMATIONS ==
    {"OnDefault", "OnPressQuack", "OnReleaseQuack",
     "OnDuckDeath", "OnDuckJump", "OnDuckLand", "OnDuckGlide", "OnDuckWalk",
     "OnDuckSneak", "OnDuckNetted", "OnDuckSpawned", "OnHatPickedUp"}

avalible_animations(hat_type) ==
    IF hat_type \in {"FlyingPet", "WalkingPet"} THEN PET_ANIMATIONS ELSE NON_PET_ANIMATIONS

\* Canvas sizes of the aseprite files imported.
CanvasSizes == {[x |-> 16, y |-> 16], [x |-> 48, y |-> 40]}

\* Tag names of the files imported: one of every element type's list and one
\* of the pets' list only.
ImportTagNames == {"OnDefault", "ONPETSTOP"}

\* The tags a file of n frames can hold: the frames of a tag are frames of
\* the file.
ImportTags(n) ==
    {t \in [name : ImportTagNames, from_frame : 0..(n - 1), to_frame : 0..(n - 1)] :
        t.from_frame <= t.to_frame}

\* Image::Aseprite: the canvas size, the number of frames and the tags.
AseImages ==
    UNION { { [kind |-> "Aseprite", size |-> sz, n |-> n, tags |-> tags] :
                sz \in CanvasSizes,
                tags \in UNION {[1..k -> ImportTags(n)] : k \in 0..MaxImportTags} } :
            n \in 1..MaxImportFrames }

\* Image::Bitmap: a png sheet of two frames of 32 by 32.
PngImages == {[kind |-> "Bitmap", size |-> [x |-> 64, y |-> 32]]}

\* An animation as data.json can hold it: Frame::new leaves delay at None.
StoredAnimation == Animation_new("OnDuckJump", 1, TRUE, <<[value |-> 1, delay |-> {}]>>)

\* <T>Data::default() with the frame size and the animations spelled out;
\* fields stands for the fields of the type outside base and animations.
\* ExtraHatData has no animations: its list stays empty.
DataDefault(ty) ==
    [ty |-> ty, hat_type |-> DefaultHatType(ty),
     frame_size |-> [x |-> MIN_FRAME_SIZE, y |-> MIN_FRAME_SIZE],
     animations |-> <<>>, fields |-> "default",
     local_image_path |-> {}, local_script_path |-> {}]

\* The data handed to load: the default of every type (load_from_path), and
\* a Wearable read from data.json (Hat::load).
ImportData ==
    { DataDefault(ty) : ty \in ElementStructs }
    \cup { [ty |-> "Wearable", hat_type |-> "Wearable",
            frame_size |-> [x |-> 32, y |-> 32],
            animations |-> <<StoredAnimation>>, fields |-> "edited",
            local_image_path |-> {<<"images", "a.png">>},
            local_script_path |-> {<<"src", "a.lua">>}] }

\* Mutant: the sheet holds one frame only.
bitmap_size_from_ase_OneFrame(image) ==
    [width |-> image.size.x, height |-> image.size.y]

\* Width and height of the sheet bitmap_from_ase returns.
bitmap_size_from_ase(image) ==
    LET size_scale_x == ceil_sqrt(image.n)
        scale_y == size_scale_y(image.n, size_scale_x)
    IN  [width |-> image.size.x * size_scale_x, height |-> image.size.y * scale_y]

\* Image::aseprite_data: Some(AsepriteData) is {data}, None is {}.
aseprite_data(image) ==
    IF image.kind # "Aseprite" THEN {}
    ELSE {[frame_size |-> image.size, animations |-> aseprite_animations(image.tags)]}

\* Image::to_bitmap_with_data
to_bitmap_with_data(image) ==
    IF image.kind = "Bitmap"
    THEN [bitmap |-> [width |-> image.size.x, height |-> image.size.y], aseprite_data |-> {}]
    ELSE [bitmap |-> bitmap_size_from_ase(image), aseprite_data |-> aseprite_data(image)]

\* Mutant: the data handed in is kept whatever the image is.
load_data_KeepsData(data, image) ==
    [data |-> data, texture |-> to_bitmap_with_data(image).bitmap]

\* LoadHatElement::load: the @anims types take frame_size and animations
\* from the aseprite data, ExtraHat (@manual) takes frame_size; the texture
\* has the size of the bitmap.
load_data(data, image) ==
    LET r == to_bitmap_with_data(image)
        new_data ==
            IF r.aseprite_data = {} THEN data
            ELSE LET ad == CHOOSE a \in r.aseprite_data : TRUE
                 IN  IF data.ty = "Extra"
                     THEN [data EXCEPT !.frame_size = ad.frame_size]
                     ELSE [data EXCEPT !.frame_size = ad.frame_size,
                                       !.animations = ad.animations]
    IN  [data |-> new_data, texture |-> r.bitmap]

\* HatElement::frames_amount
frames_amount(e) ==
    LET frames_x == e.texture.width \div e.data.frame_size.x
        frames_y == e.texture.height \div e.data.frame_size.y
    IN  frames_x * frames_y

InitImport ==
    /\ HatInit /\ FsIdle /\ PjIdle /\ AseIdle /\ TagIdle /\ LpIdle /\ TabIdle /\ NgIdle
    /\ im \in [image : AseImages \cup PngImages, data : ImportData, elem : {[kind |-> "none"]}]

\* <T>Hat::load(data, image, gl): Ok(element), or the error of
\* Texture::from_bitmap.
ImLoad ==
    /\ im.elem.kind = "none"
    /\ \/ im' = [im EXCEPT !.elem = [kind |-> "Ok", element |-> load_data(im.data, im.image)]]
       \/ im' = [im EXCEPT !.elem = [kind |-> "Err"]]
    /\ UNCHANGED notimport

NextImport == ImLoad

SpecImport == InitImport /\ [][NextImport]_vars

\* ------------------------------------------------ Path::local_path alone
\* The names of the components below the root.
PathNames == {"foo", "bar"}

\* The paths tried: relative ones, and rooted ones whose first component is
\* the root directory "/", of up to MaxPathLen components.
Paths ==
    UNION { [1..k -> PathNames] : k \in 0..MaxPathLen }
    \cup UNION { {<<"/">> \o p : p \in [1..k -> PathNames]} : k \in 0..(MaxPathLen - 1) }

\* Path::join of a directory and a relative path.
join(directory, path) == directory \o path

InitPath ==
    /\ HatInit /\ FsIdle /\ PjIdle /\ AseIdle /\ TagIdle /\ ImIdle /\ TabIdle /\ NgIdle
    /\ lp \in [path : Paths, dir : Paths, out : {[kind |-> "none"]}]

\* path.local_path(directory)
LocalPath ==
    /\ lp.out.kind = "none"
    /\ lp' = [lp EXCEPT !.out = local_path(lp.path, lp.dir)]
    /\ UNCHANGED notpath

NextPath == LocalPath

SpecPath == InitPath /\ [][NextPath]_vars

\* --------------------------------------------- the hat tab, frame by frame
\* The ids the tree view can report, 0 standing for no click.
TabIds == 0..MaxTabId

\* The hats a tab is opened on: Hat::new (empty), and hats read by Hat::load
\* with one and two elements.
TabHats ==
    { NoElements,
      [i \in {1} |-> load("FlyingPet", "FlyingPet", 1)],
      [i \in {1, 2} |-> IF i = 1 THEN load("FlyingPet", "FlyingPet", 1)
                        ELSE load("Wearable", "Wearable", 2)] }

\* Mutant: the selection is kept when its element is removed.
after_remove_Keep(selected, removed) == selected

\* draw_hat_element_tab after hat.remove_element(remove_id): the selection is
\* reset when it is the id removed.
after_remove(selected, removed) ==
    IF removed # {} /\ selected = removed THEN {} ELSE selected

\* draw_hat_ui: the selections it can end with and what its lookup gives.
\* "skipped" is the return on an empty hat, "found" and "panic" are the
\* outcomes of hat.element_mut(id).unwrap().
draw_hat_ui(els, selected) ==
    IF selected = {}
    THEN IF DOMAIN els = {}
         THEN {[selected |-> {}, lookup |-> "skipped"]}
         ELSE {[selected |-> {id}, lookup |-> "found"] : id \in DOMAIN els}
    ELSE {[selected |-> selected,
           lookup |-> IF element(els, CHOOSE id \in selected : TRUE) # {}
                      THEN "found" ELSE "panic"]}

InitTab ==
    /\ FsIdle /\ PjIdle /\ AseIdle /\ TagIdle /\ ImIdle /\ LpIdle /\ NgIdle
    /\ phase = "open"
    /\ elements \in TabHats
    /\ next_id = Cardinality(DOMAIN elements) + 1
    /\ last = [op |-> "new"]
    /\ issued = [i \in 1..Cardinality(DOMAIN elements) |-> i]
    /\ textures = DOMAIN elements
    \* open_hat selects hat.elements().next(), new_hat selects nothing
    /\ tab \in [selected_hat_id : {{id} : id \in DOMAIN elements}
                                   \cup {s \in {{}} : elements = NoElements},
                 element_to_remove : {{}}, lookup : {"none"}, removed : {{}}]

\* One call of draw_hat_element_tab.  sel is the id of the tree's
\* SetSelected action, button the click in the remove modal, ctx the element
\* whose context menu asked for removal, added the type picked in the add
\* modal, picked whether the file dialog returned a path, loaded whether
\* load_from_path returned Ok.
TabFrame(sel, button, ctx, added, picked, loaded) ==
    /\ phase = "open"
    /\ button # "none" => tab.element_to_remove # {}
    /\ added # "none" => ~has_element(elements, added)
    /\ (added # "none" /\ picked /\ loaded) => next_id <= MaxTabId
    /\ LET response ==
               [selected_hat_id |-> IF element_exists(elements, sel) THEN {sel} ELSE {},
                removed_hat_id |-> IF button = "confirm" THEN tab.element_to_remove ELSE {},
                added_hat_type |-> added]
           pending == IF button # "none" THEN {} ELSE tab.element_to_remove
           asked == IF element_exists(elements, ctx) THEN {ctx} ELSE pending
           selected1 == IF response.selected_hat_id # {} THEN response.selected_hat_id
                        ELSE tab.selected_hat_id
           elements1 == IF response.removed_hat_id # {}
                        THEN remove_element(elements, CHOOSE id \in response.removed_hat_id : TRUE)
                        ELSE elements
           selected2 == after_remove(selected1, response.removed_hat_id)
           fresh == hat_element_id(next_id)
           adds == added # "none" /\ picked
           elements2 == IF adds /\ loaded
                        THEN add_element(elements1, load_from_path(added, fresh.id))
                        ELSE elements1
       IN  IF adds /\ ~loaded
           THEN \* load_from_path(..).unwrap() panics
                /\ phase' = "aborted"
                /\ elements' = elements1
                /\ tab' = [selected_hat_id |-> selected2, element_to_remove |-> asked,
                           lookup |-> "none", removed |-> response.removed_hat_id]
                /\ UNCHANGED <<next_id, issued, textures>>
           ELSE /\ elements' = elements2
                /\ \E d \in draw_hat_ui(elements2, selected2) :
                      /\ tab' = [selected_hat_id |-> d.selected, element_to_remove |-> asked,
                                 lookup |-> d.lookup, removed |-> response.removed_hat_id]
                      /\ phase' = IF d.lookup = "panic" THEN "aborted" ELSE "open"
                /\ IF adds
                   THEN /\ next_id' = fresh.counter
                        /\ issued' = Append(issued, fresh.id)
                        /\ textures' = textures \cup {fresh.id}
                   ELSE UNCHANGED <<next_id, issued, textures>>
    /\ last' = [op |-> "frame"]
    /\ UNCHANGED nottab

\* draw_elements_menu: the Add entry of the editor's menu on the focused tab.
MenuAdd(loaded) ==
    /\ phase = "open"
    /\ {} \in wereable(elements)
    /\ loaded => next_id <= MaxTabId
    /\ IF loaded
       THEN LET fresh == hat_element_id(next_id) IN
            /\ elements' = add_element(elements, load_from_path("Wearable", fresh.id))
            /\ next_id' = fresh.counter
            /\ issued' = Append(issued, fresh.id)
            /\ textures' = textures \cup {fresh.id}
       ELSE UNCHANGED <<elements, next_id, issued, textures>>
    /\ last' = [op |-> "menu"]
    /\ UNCHANGED <<phase, tab>>
    /\ UNCHANGED nottab

NextTab ==
    \/ \E sel \in TabIds, button \in {"none", "confirm", "cancel"}, ctx \in TabIds,
          added \in {"none", "Wearable", "Wings"}, picked \in BOOLEAN, loaded \in BOOLEAN :
          TabFrame(sel, button, ctx, added, picked, loaded)
    \/ \E loaded \in BOOLEAN : MenuAdd(loaded)

SpecTab == InitTab /\ [][NextTab]_vars

\* ------------------------------------------------------------- NameGetter
\* The messages and the pending data open() is called with
\* (NameGetterVariant), and the texts the user can leave in the text field.
Messages == {"14", "36"}

NameGetterVariant == {"Hat", "Script"}

Buffers == UNION { [1..k -> {"a", "b"}] : k \in 0..MaxNameLen }

\* NameGetterState::Closed, and Option::None as a result.
Closed == [kind |-> "Closed"]

None == [kind |-> "None"]

\* Mutant: open replaces the state whatever it is.
open_Always(state, message, data) ==
    [kind |-> "Opened", message |-> message, buffer |-> <<>>, data |-> data]

\* NameGetter::open
open(state, message, data) ==
    IF state.kind = "Closed"
    THEN [kind |-> "Opened", message |-> message, buffer |-> <<>>, data |-> data]
    ELSE state

\* NameGetter::update.  shown tells whether the modal is open in egui's
\* memory, so that modal.show runs its closure; typed is the text the
\* TextEdit leaves in the buffer this frame, click the button clicked.
update(state, shown, typed, click) ==
    IF state.kind = "Closed" THEN [state |-> state, result |-> None]
    ELSE IF ~shown THEN [state |-> state, result |-> None]
    ELSE LET edited == [state EXCEPT !.buffer = typed] IN
         CASE click = "15" -> [state |-> Closed, result |-> [kind |-> "Closed"]]
           [] click = "16" ->
                [state |-> Closed,
                 result |-> [kind |-> "Confirmed", buffer |-> edited.buffer, data |-> edited.data]]
           [] OTHER -> [state |-> edited, result |-> None]

InitNg ==
    /\ HatInit /\ FsIdle /\ PjIdle /\ AseIdle /\ TagIdle /\ ImIdle /\ LpIdle /\ TabIdle
    /\ ng = [state |-> Closed, shown |-> FALSE, last |-> [call |-> "none"],
             asked |-> [opens |-> 0, answers |-> 0, message |-> "", data |-> ""]]

\* name_getter.open(message, data).  ng.asked counts the calls made while
\* Closed and keeps what the last of them passed.
NgOpen(message, data) ==
    /\ ng.state.kind = "Closed" => ng.asked.opens < MaxOpens
    /\ ng' = [state |-> open(ng.state, message, data),
              shown |-> ng.shown,
              last |-> [call |-> "open"],
              asked |-> IF ng.state.kind = "Closed"
                        THEN [ng.asked EXCEPT !.opens = @ + 1, !.message = message,
                                              !.data = data]
                        ELSE ng.asked]
    /\ UNCHANGED notng

\* name_getter.update(ctx, text), once per frame: modal.open() after the
\* show leaves the modal open whenever the state was Opened.
NgUpdate(typed, click) ==
    /\ LET r == update(ng.state, ng.shown, typed, click) IN
        ng' = [state |-> r.state,
               shown |-> (ng.shown \/ ng.state.kind = "Opened"),
               last |-> [call |-> "update", typed |-> typed, result |-> r.result],
               asked |-> IF r.result = None THEN ng.asked
                         ELSE [ng.asked EXCEPT !.answers = @ + 1]]
    /\ UNCHANGED notng

NextNg ==
    \/ \E message \in Messages, data \in NameGetterVariant : NgOpen(message, data)
    \/ \E typed \in Buffers, click \in {"none", "15", "16"} : NgUpdate(typed, click)

SpecNg == InitNg /\ [][NextNg]_vars

\* ------------------------------------------------------------- hat claims
\* The kind of an element, as the aggregate sees it, is its hat_type tag.
ElementsOfKind(els, hat_type) == {i \in DOMAIN els : els[i].hat_type = hat_type}

\* The five kinds an element can be given.
ElementKinds == {"Wearable", "Wings", "Extra", "FlyingPet", "WalkingPet"}

\* add_element's two reasons to reject, written from the contract: e is a pet
\* and the aggregate already holds MAX_PETS pets, or e is of a unique type and
\* an element of its kind is present.
PetOverCap(els, e) ==
    /\ e.hat_type \in {"FlyingPet", "WalkingPet"}
    /\ Cardinality(ElementsOfKind(els, "FlyingPet") \cup ElementsOfKind(els, "WalkingPet")) >= 5

UniqueDuplicate(els, e) ==
    /\ e.ty \in {"Wearable", "Wings"}
    /\ ElementsOfKind(els, e.hat_type) # {}

\* C1: after any sequence of add_element and remove_element calls, those of
\* Hat::load included, the aggregate holds at most 5 pet elements (elements
\* whose kind is FlyingPet or WalkingPet).
C1_PetCap ==
    Cardinality(ElementsOfKind(elements, "FlyingPet")
                \cup ElementsOfKind(elements, "WalkingPet")) <= 5

\* C1 witness: Hat::load has just had the add of a sixth pet of data.json
\* refused, the hat holding five.
C1_Witness ==
    /\ phase = "loading"
    /\ last.op = "add"
    /\ last.e.hat_type \in {"FlyingPet", "WalkingPet"}
    /\ last.e.id \notin DOMAIN elements
    /\ pets_amount(elements) = 5

\* C2: after any sequence of add_element and remove_element calls, those of
\* Hat::load included, the aggregate holds at most one element of kind
\* Wearable and at most one of kind Wings.
C2_AtMostOneWearableAndWings ==
    /\ Cardinality(ElementsOfKind(elements, "Wearable")) <= 1
    /\ Cardinality(ElementsOfKind(elements, "Wings")) <= 1

\* The step is a call of add_element (a fresh element was constructed for it;
\* last' holds it).
AddStep == last'.op = "add" /\ next_id' = next_id + 1

C5_RemoveExactlyOne ==
    [][ last'.op = "remove"
        => /\ DOMAIN elements' = DOMAIN elements \ {last'.id}
           /\ \A i \in DOMAIN elements' : elements'[i] = elements[i]
           /\ (last'.id \notin DOMAIN elements => elements' = elements) ]_vars

\* C5 witness: an element has just been removed from between two others,
\* which are still there.
C5_Witness ==
    /\ last.op = "remove"
    /\ last.id \notin DOMAIN elements
    /\ last.id < next_id
    /\ \E i, j \in DOMAIN elements : i < last.id /\ last.id < j

\* C6: can_add_elements() is true iff the aggregate holds fewer than 5 pets
\* and at least one of the five element kinds has no element in it.
C6_CanAddElements ==
    can_add_elements(elements)
        <=> /\ Cardinality(ElementsOfKind(elements, "FlyingPet")
                           \cup ElementsOfKind(elements, "WalkingPet")) < 5
            /\ \E k \in ElementKinds : ElementsOfKind(elements, k) = {}

\* ----------------------------------------------------- save/export claims
\* A call of save or export is between two of its steps, or was cut there.
InCall == sv_pc \in {"checked", "created", "written", "ready", "crashed"}

\* The call has returned after its remove_file of the destination failed.
ReturnedAfterFailedDelete == sv_pc = "returned" /\ del_failed

\* C7: at every point between two steps of the write sequence of save and
\* export (and so after a crash there) the destination holds the complete old
\* file or the complete new one: it is never missing or partial.
C7_DestinationOldOrNew ==
    InCall => dest[sv_op] \in {dest_before, "new"}

C9_DeletionErrorReturned ==
    ReturnedAfterFailedDelete => result = Err("delete")

\* Some file the integrity check looks for is missing: the root, or a file an
\* element names.
IntegrityBroken ==
    \/ RootDir \notin disk
    \/ \E e \in refs : ~((e.image \cup e.script) \subseteq disk)

\* C10: save and export check the files before any write: when the check
\* fails the call has returned an error naming a missing file, no temporary
\* file was created and the destination is as it was.
C10_IntegrityFirst ==
    (sv_pc # "idle" /\ IntegrityBroken) =>
        /\ sv_pc = "returned"
        /\ result.kind = "Err" /\ result.what = "integrity"
        /\ result.path \notin disk
        /\ tmp = "absent"
        /\ dest[sv_op] = dest_before

\* C10 witness: a call on a hat whose image was deleted has returned the
\* integrity error, the old destination untouched.
C10_Witness ==
    /\ sv_pc = "returned"
    /\ result = [kind |-> "Err", what |-> "integrity", path |-> "images/a.png"]
    /\ RootDir \in disk
    /\ dest[sv_op] = "old"
    /\ tmp = "absent"

\* A save or export has returned an error raised after the integrity check.
FailedAfterCheck ==
    /\ sv_pc = "returned"
    /\ result.kind = "Err"
    /\ result.what # "integrity"

\* C11: when save or export fails at a step after the integrity check, no
\* temporary sibling file is left on disk and the destination is as it was
\* before the call (in particular not deleted).
C11_NoPartialArtifact ==
    FailedAfterCheck => (tmp = "absent" /\ dest[sv_op] = dest_before)

\* The paths the hat depends on that do not exist: the root, the image and
\* the script of every element.
OffendingPaths ==
    ({RootDir} \cup UNION {e.image \cup e.script : e \in refs}) \ disk

\* C12: the integrity check that opens a save or export fails exactly when
\* the root or a file named by an element is missing, the error names a
\* missing path of the hat, and the check changes neither the hat nor the
\* files.
C12_IntegrityCheck ==
    [][ (sv_pc = "idle" /\ sv_pc' # "idle") =>
            /\ (sv_pc' = "returned") <=> IntegrityBroken
            /\ (sv_pc' # "returned") => (sv_pc' = "checked")
            /\ (sv_pc' = "returned") =>
                    /\ result'.kind = "Err" /\ result'.what = "integrity"
                    /\ result'.path \in OffendingPaths
            /\ UNCHANGED <<disk, refs, dest, tmp, stale>>
            /\ UNCHANGED hatvars ]_vars

\* C12 witness: the root and the image are there, the script of an element
\* was deleted, and the check has named the script.
C12_Witness ==
    /\ sv_pc = "returned"
    /\ result = [kind |-> "Err", what |-> "integrity", path |-> "src/a.lua"]
    /\ RootDir \in disk
    /\ \A e \in refs : e.image \subseteq disk

\* C17: the ids handed out by hat_element_id() are strictly increasing in the
\* order they were returned, so no two elements ever constructed (kept,
\* removed or rejected) share an id; every element of the aggregate sits
\* under its own id, which is one of the ids handed out.
C17_IdsNeverReused ==
    /\ \A i \in 1..(Len(issued) - 1) : issued[i] < issued[i + 1]
    /\ \A id \in DOMAIN elements :
            /\ elements[id].id = id
            /\ \E i \in DOMAIN issued : issued[i] = id

\* C17 witness: four ids were handed out; the last went to an element the
\* aggregate rejected, an earlier one to an element that was removed, and the
\* aggregate still holds an element.
C17_Witness ==
    /\ Len(issued) = 4
    /\ last.op = "add"
    /\ last.e.id = issued[4]
    /\ last.e.id \notin DOMAIN elements
    /\ Cardinality(DOMAIN elements) = 1

\* -------------------------------------------------- project folder claims
\* What the round trip must keep of an element: its kind (struct and tag) and
\* its configuration, frame and animation data.
Shape(e) == [ty |-> e.ty, hat_type |-> e.hat_type, cfg |-> e.cfg]

\* The two maps hold the same multiset of shapes.
SameShapes(a, b) ==
    \A sh \in {Shape(a[i]) : i \in DOMAIN a} \cup {Shape(b[i]) : i \in DOMAIN b} :
        Cardinality({i \in DOMAIN a : Shape(a[i]) = sh})
            = Cardinality({i \in DOMAIN b : Shape(b[i]) = sh})

\* Within the pet cap and the uniqueness limits.
ValidHat(els) ==
    /\ Cardinality(ElementsOfKind(els, "FlyingPet") \cup ElementsOfKind(els, "WalkingPet"))
            <= MAX_PETS
    /\ \A k \in {"Wearable", "Wings"} : Cardinality(ElementsOfKind(els, k)) <= 1

\* The hat loaded back has the shapes of the hat that was saved.
LoadedAsSaved ==
    (last.op = "load" /\ phase = "open" /\ pj_saved.kind = "saved")
        => SameShapes(elements, pj_saved.elements)

\* C13: folder round trip.  The save of a valid hat succeeds, whether its
\* elements were loaded or added from a png or an aseprite image, and the
\* load that follows yields the same multiset of element kinds with the same
\* configuration, frame and animation data.
C13_FolderRoundTrip ==
    /\ (last.op = "save" /\ ValidHat(elements)) => pj_result = Ok
    /\ LoadedAsSaved

\* The bitmap of the element was read from a file below the root.
UnderRoot(e) ==
    /\ e.bitmap.path # {}
    /\ \A p \in e.bitmap.path :
            Len(p) > Len(RootPath) /\ SubSeq(p, 1, Len(RootPath)) = RootPath

\* C15: a folder save records every image path relative to the root, and
\* when an element's image is not below the root or has no path on disk the
\* save returns an error and the program goes on.
C15_PathEscapeReported ==
    last.op = "save" =>
        IF \A id \in DOMAIN elements : UnderRoot(elements[id])
        THEN /\ pj_result = Ok
             /\ \A i \in DOMAIN pj_json.elements :
                    \E id \in DOMAIN elements :
                        \A rel \in pj_json.elements[i].local_image_path :
                            RootPath \o rel \in elements[id].bitmap.path
        ELSE /\ pj_result.kind = "Err"
             /\ phase = "open"

\* images/<id>.png
PngName(id) == <<"images", ToString(id) \o ".png">>

\* C14: an exported archive holds data.json and exactly one image entry per
\* element; for every element, data.json records images/<id>.png with that
\* element's data, and the archive entry of that name holds the bitmap of
\* that same element.
C14_ArchiveImages ==
    (last.op = "export" /\ pj_result = Ok) =>
        /\ pj_archive.kind = "zip"
        /\ pj_archive.data.state = "data"
        /\ Len(pj_archive.images) = Cardinality(DOMAIN elements)
        /\ Len(pj_archive.data.elements) = Cardinality(DOMAIN elements)
        /\ \A id \in DOMAIN elements :
            \E i \in DOMAIN pj_archive.images :
                /\ pj_archive.images[i]
                        = [name |-> PngName(id), bitmap |-> elements[id].bitmap.of]
                /\ pj_archive.data.elements[i]
                        = [ty |-> elements[id].ty, hat_type |-> elements[id].hat_type,
                           cfg |-> elements[id].cfg, local_image_path |-> {PngName(id)}]

\* C14 witness: an archive of a hat with two elements, one loaded from the
\* folder and one whose bitmap was drawn from an aseprite file, written in
\* the order opposite to their ids.
C14_Witness ==
    /\ last.op = "export"
    /\ pj_archive.kind = "zip"
    /\ Len(pj_archive.images) = 2
    /\ pj_archive.images[1].bitmap > pj_archive.images[2].bitmap
    /\ \E id \in DOMAIN elements : elements[id].bitmap.path = {}
    /\ \E id \in DOMAIN elements : elements[id].local_image_path # {}

\* data.json as Hat::load writes it.
DefaultData == [state |-> "data", name |-> "Default", elements |-> <<>>]

\* C16: Hat::load fails and creates no file when the root or root/images is
\* missing; with both there and no data.json, a load that returns a hat has
\* written a data.json with no elements and the name "Default" and returns an
\* empty hat of that name; a load of that file returns the same hat and
\* writes nothing.
C16_LoadOfBareFolder ==
    [][ (phase = "none" /\ last'.op = "load") =>
            /\ (pj_dirs # {"root", "images"}) =>
                    /\ pj_result'.kind = "Err"
                    /\ phase' = "none"
                    /\ ~last'.wrote
                    /\ pj_json' = pj_json /\ pj_dirs' = pj_dirs
            /\ (pj_dirs = {"root", "images"} /\ pj_json.state = "absent" /\ pj_result' = Ok) =>
                    /\ pj_json' = DefaultData
                    /\ phase' = "open"
                    /\ elements' = NoElements /\ pj_name' = "Default"
            /\ (pj_dirs = {"root", "images"} /\ pj_json = DefaultData) =>
                    /\ pj_result' = Ok
                    /\ phase' = "open"
                    /\ elements' = NoElements /\ pj_name' = "Default"
                    /\ ~last'.wrote
                    /\ pj_json' = pj_json ]_vars

\* C16 witness: a load of the folder that holds the data.json written by an
\* earlier load has returned the empty hat named "Default" and written
\* nothing.
C16_Witness ==
    /\ last = [op |-> "load", wrote |-> FALSE]
    /\ pj_result = Ok
    /\ phase = "open"
    /\ pj_json = DefaultData
    /\ elements = NoElements
    /\ pj_name = "Default"
    /\ pj_saved.kind = "none"

\* ------------------------------------------------------- aseprite claims
\* C18: for a file of n >= 1 frames the grid is w = ceil(sqrt(n)) wide and
\* h = w - 1 high if w*w - n >= w, else h = w (3 by 2 for n = 5); the grid
\* holds all frames, has no empty row and at least one row, and the sheet is
\* w frame widths by h frame heights.
C18_GridSize ==
    ase_pc # "idle" =>
        LET n == ase_n
            w == ase_grid.x
            h == ase_grid.y
        IN  /\ (w - 1) * (w - 1) < n /\ n <= w * w
            /\ h = (IF w * w - n >= w THEN w - 1 ELSE w)
            /\ (n = 5) => (w = 3 /\ h = 2)
            /\ w * h >= n
            /\ w * (h - 1) < n
            /\ h >= 1
            /\ ase_sheet = [width |-> w * ase_size.width, height |-> h * ase_size.height]

\* C18 witness: five frames of 32 by 32 give a 3 by 2 grid, a sheet of 96 by 64.
C18_Witness ==
    /\ ase_pc = "loop"
    /\ ase_n = 5
    /\ ase_grid = [x |-> 3, y |-> 2]
    /\ ase_sheet = [width |-> 96, height |-> 64]

\* C19: when bitmap_from_ase returns, every frame i < n was drawn exactly
\* once, at column i mod w and row i div w of the grid; and wherever the
\* inner loop breaks on a cell without frame, no cell further down that
\* column has a frame.
C19_EveryFrameOnce ==
    /\ ase_pc = "done" =>
        /\ Len(ase_drawn) = ase_n
        /\ \A i \in 0..(ase_n - 1) :
            \E k \in DOMAIN ase_drawn :
                ase_drawn[k] = [frame |-> i,
                                x |-> (i % ase_grid.x) * ase_size.width,
                                y |-> (i \div ase_grid.x) * ase_size.height]
    /\ (ase_pc = "loop" /\ ase_x < ase_grid.x /\ ase_y < ase_grid.y
            /\ ase_y * ase_grid.x + ase_x >= ase_n) =>
        \A row \in ase_y..(ase_grid.y - 1) : row * ase_grid.x + ase_x >= ase_n

\* C19 witness: seven frames on a 3 by 3 grid, whose last two cells are
\* empty, all drawn.
C19_Witness ==
    /\ ase_pc = "done"
    /\ ase_n = 7
    /\ ase_grid = [x |-> 3, y |-> 3]
    /\ Len(ase_drawn) = 7

\* The tag names that are in the name table when case is ignored, with the
\* animation type each stands for.
KnownTagNames == {"OnDefault", "ONPETSTOP", "onduckjump"}

KnownTagType(name) ==
    CASE name = "OnDefault" -> "OnDefault"
      [] name = "ONPETSTOP" -> "OnPetStop"
      [] name = "onduckjump" -> "OnDuckJump"

KnownTags == SelectSeq(tg_tags, LAMBDA t : t.name \in KnownTagNames)

\* C20: aseprite_data gives one Animation per tag whose name is in the name
\* table when case is ignored, in the tags' order, and none for other tags;
\* each has delay -1, looping false, and one Frame per frame of the tag from
\* its first to its last frame inclusive, in order, whose value is the frame
\* index and whose delay is the frame's duration in seconds.
C20_TagAnimations ==
    tg_out.kind = "Some" =>
        /\ Len(tg_out.animations) = Len(KnownTags)
        /\ \A k \in DOMAIN KnownTags :
            LET t == KnownTags[k]
                a == tg_out.animations[k]
            IN  /\ a.anim_type = KnownTagType(t.name)
                /\ a.delay = -1
                /\ a.looping = FALSE
                /\ Len(a.frames) = t.to_frame - t.from_frame + 1
                /\ \A j \in DOMAIN a.frames :
                    /\ a.frames[j].value = t.from_frame + j - 1
                    /\ a.frames[j].delay
                            = {[ms |-> duration(t.from_frame + j - 1), per |-> 1000]}

\* ---------------------------------------------------------- import claims
\* The element load returned, and the kinds of its animations.
Loaded == im.elem.kind = "Ok"

LoadedData == im.elem.element.data

AnimationKindsOf(animations) == {animations[i].anim_type : i \in DOMAIN animations}

\* C21: every element load produces has at most one Animation per
\* AnimationKind, and only kinds that are legal for its element kind: never
\* OnPetStop or OnPetApproach outside the pets.
C21_AnimationKinds ==
    Loaded =>
        /\ \A i, j \in DOMAIN LoadedData.animations :
              LoadedData.animations[i].anim_type = LoadedData.animations[j].anim_type => i = j
        /\ AnimationKindsOf(LoadedData.animations) \subseteq avalible_animations(LoadedData.hat_type)

\* C22: in an element loaded from an aseprite file every Frame of every
\* extracted Animation has 0 <= value < frames_amount().
C22_FramesOnSheet ==
    (Loaded /\ im.image.kind = "Aseprite") =>
        \A i \in DOMAIN LoadedData.animations :
            \A k \in DOMAIN LoadedData.animations[i].frames :
                /\ 0 <= LoadedData.animations[i].frames[k].value
                /\ LoadedData.animations[i].frames[k].value < frames_amount(im.elem.element)

\* An aseprite file of three frames gave an animation that shows the second
\* frame of the sheet.
C22_Witness ==
    /\ Loaded /\ im.image.kind = "Aseprite" /\ im.image.n = 3
    /\ \E i \in DOMAIN LoadedData.animations :
          \E k \in DOMAIN LoadedData.animations[i].frames :
              LoadedData.animations[i].frames[k].value = 1

\* C23: after an import both components of base.frame_size lie between
\* MIN_FRAME_SIZE and MAX_FRAME_SIZE, whatever the canvas of the file.
C23_FrameSizeInRange ==
    Loaded =>
        /\ LoadedData.frame_size.x \in MIN_FRAME_SIZE..MAX_FRAME_SIZE
        /\ LoadedData.frame_size.y \in MIN_FRAME_SIZE..MAX_FRAME_SIZE

\* C24: an aseprite image sets frame_size to the canvas size and, in the
\* four animated types, the animations to the extracted list, whatever the
\* data handed in held; a plain bitmap leaves every field of the data.
C24_ImportWins ==
    Loaded =>
        /\ im.image.kind = "Aseprite" =>
              /\ LoadedData.frame_size = im.image.size
              /\ LoadedData.ty # "Extra" =>
                    LoadedData.animations = aseprite_animations(im.image.tags)
        /\ im.image.kind = "Bitmap" => LoadedData = im.data

\* Stored data with an animation went through the import of an aseprite
\* file, and the element holds the file's animations and canvas size.
C24_Witness ==
    /\ Loaded /\ im.image.kind = "Aseprite"
    /\ im.data.animations # <<>>
    /\ LoadedData.animations # im.data.animations
    /\ LoadedData.frame_size # im.data.frame_size

\* ---------------------------------------------------------- texture claim
\* C25: every texture created for an element is released when the element
\* is destroyed, by remove_element or by the drop of the owning hat: every
\* texture not released belongs to an element the hat still holds.
C25_TexturesReleased ==
    \A id \in textures : element_exists(elements, id)

\* ------------------------------------------------------- local_path claim
\* The directory is a parent, grandparent, ... of the path.
ProperAncestor(directory, path) == directory \in ancestors(path) \ {path}

RelativeTo(directory, path, out) == out.kind = "Ok" /\ join(directory, out.path) = path

\* The path without its root component.
WithoutRoot(path) == IF has_root(path) THEN Tail(path) ELSE path

\* C26: local_path(directory) returns the path relative to the directory
\* when the directory is an ancestor of the path (the directory joined with
\* the result is the path), the whole path without its root when the
\* directory is empty, and Err(PathNotInDir) when the directory is neither.
\* For the directory equal to the path either of the two answers is taken as
\* meeting the claim.
C26_LocalPath ==
    lp.out.kind # "none" =>
        /\ lp.dir = <<>> => (lp.out.kind = "Ok" /\ lp.out.path = WithoutRoot(lp.path))
        /\ (lp.dir # <<>> /\ ProperAncestor(lp.dir, lp.path)) =>
              RelativeTo(lp.dir, lp.path, lp.out)
        /\ (lp.dir # <<>> /\ lp.dir = lp.path) =>
              (RelativeTo(lp.dir, lp.path, lp.out) \/ lp.out.kind = "Err")
        /\ (lp.dir # <<>> /\ lp.dir \notin ancestors(lp.path)) => lp.out.kind = "Err"

\* The same on every directory other than the path itself: the part of the
\* claim the function meets.
LocalPathApart ==
    lp.dir # lp.path => C26_LocalPath

\* ----------------------------------------------------------- kind claims
\* The five lookups by kind.
lookup(els, kind) ==
    CASE kind = "Wearable" -> wereable(els)
      [] kind = "Wings" -> wings(els)
      [] kind = "Extra" -> extra(els)
      [] kind = "FlyingPet" -> flying_pet(els)
      [] kind = "WalkingPet" -> walking_pet(els)

\* C27: each lookup by kind returns an element of exactly that kind whenever
\* the aggregate contains at least one element of that kind, and None only
\* when it contains none: its kind tag and its type are both the kind asked
\* for.
C27_LookupByKind ==
    \A kind \in ElementStructs :
        \A r \in lookup(elements, kind) :
            /\ ElementsOfKind(elements, kind) # {} =>
                  \E e \in r : e.hat_type = kind /\ e.ty = kind
            /\ r = {} => ElementsOfKind(elements, kind) = {}

\* C28: only FlyingPet and WalkingPet count as pets: an Extra element made
\* from default data carries the Extra kind tag and is no pet, so the
\* add_element that follows is never refused (an ExtraHat is not unique, so
\* only the pet cap could refuse it).
C28_DefaultExtraIsNoPet ==
    (last.op = "add" /\ last.e = load_from_path("Extra", last.e.id)) =>
        /\ last.e.hat_type = "Extra"
        /\ ~is_pet(last.e)
        /\ last.e.id \in DOMAIN elements

\* -------------------------------------------------------- hat tab claim
\* C29: in a hat tab, after any sequence of frames with selections,
\* confirmed removals and additions, tab.selected_hat_id is None or the id of an
\* element of the hat, so hat.element_mut(id).unwrap() in draw_hat_ui never
\* fails; the frame that removes the selected element resets the selection.
C29_SelectionValid ==
    /\ tab.lookup # "panic"
    /\ tab.selected_hat_id \subseteq DOMAIN elements
    /\ tab.removed \cap tab.selected_hat_id = {}

\* The last frame removed the only element of the hat, which was the selected
\* one, and draw_hat_ui returned on the empty hat with nothing selected.
C29_Witness ==
    /\ tab.removed # {}
    /\ tab.lookup = "skipped"
    /\ tab.selected_hat_id = {}
    /\ DOMAIN elements = {}

\* ------------------------------------------------------ NameGetter claim
\* The step is a call of open, and a call of update.
OpenStep == ng'.last.call = "open"

UpdateStep == ng'.last.call = "update"

\* What the NameGetter holds at every moment: one of the two states; while
\* Opened exactly one open is unanswered and the state holds what that open
\* passed; while Closed every open has been answered.
NameGetterStates ==
    /\ ng.state.kind \in {"Closed", "Opened"}
    /\ ng.asked.answers <= ng.asked.opens
    /\ ng.state.kind = "Closed" <=> ng.asked.answers = ng.asked.opens
    /\ ng.state.kind = "Opened" =>
          /\ ng.asked.opens = ng.asked.answers + 1
          /\ ng.state.message = ng.asked.message
          /\ ng.state.data = ng.asked.data

\* What the calls do: open while Opened changes nothing; update returns a
\* result only when the state was Opened, the result is Closed or Confirmed
\* with the text of the field and the data of the open being answered, and
\* the state after it is Closed.
NameGetterCalls ==
    /\ (OpenStep /\ ng.state.kind = "Opened") => ng'.state = ng.state
    /\ (UpdateStep /\ ng'.last.result # None) =>
          /\ ng.state.kind = "Opened"
          /\ ng'.state = Closed
          /\ \/ ng'.last.result = [kind |-> "Closed"]
             \/ ng'.last.result = [kind |-> "Confirmed", buffer |-> ng'.last.typed,
                                   data |-> ng.asked.data]

\* C30: the NameGetter is a two-state machine: open() while Opened leaves
\* message, buffer and pending data unchanged; update() returns a result only
\* in Opened; each open is answered by at most one result, Confirmed with the
\* buffer and data of that open or Closed, after which the state is Closed.
C30_NameGetter == []NameGetterStates /\ [][NameGetterCalls]_vars

\* Two opens were made and answered: text was typed into the field and the
\* last update returned Confirmed with that text and the data of its open.
C30_Witness ==
    /\ ng.last.call = "update"
    /\ ng.last.result = [kind |-> "Confirmed", buffer |-> <<"a", "b">>, data |-> "Hat"]
    /\ ng.state = Closed
    /\ ng.asked.opens = 2
    /\ ng.asked.answers = 2

====
